---------------------------- MODULE Spec2Model ----------------------------
(***************************************************************************)
(* Model of the Streamlit Learning Hub's session resolver                  *)
(* (app/utils/auth.py, get_snowflake_session) and of the page scripts that *)
(* call it (app/app.py and app/pages/*.py).                                *)
(*                                                                         *)
(* The resolver is modelled statement by statement (lines 8, 10, 12, 13).  *)
(* The two library calls it makes, get_active_session() and                *)
(* Session.builder.config(...).create(), are the environment: each call    *)
(* returns a session object or raises, chosen nondeterministically.        *)
(* Their outcomes are the exceptions the library raises itself, all of     *)
(* which derive from Exception.                                            *)
(*                                                                         *)
(* A page script is the sequence of its statements that involve the        *)
(* session: the resolver call, the direct get_active_session() probe, the  *)
(* data operations issued through `session`, and the st.rerun() calls that *)
(* abort an execution.                                                     *)
(***************************************************************************)
EXTENDS Integers, Sequences, FiniteSets, TLC

\* Bounds of the model.
MaxCalls == 2      \* resolver invocations per execution of the test caller
MaxRuns  == 3      \* page executions (reruns)
MaxClicks == 2     \* plus clicks, and minus clicks, on the working counter between resets

\* Values of the environment.
Unbound       == "<unbound>"                 \* a name that was never assigned
HostSessions  == {"host1", "host2"}          \* objects get_active_session() may return
BuiltSessions == {"built1", "built2"}        \* objects Session.builder...create() may return
Profiles      == {"LOCAL_DEV", "PROD"}       \* values utils.config may give CONNECTION_NAME
LookupErrors  == {"SnowparkSessionException", "RuntimeError"}
BuilderErrors == {"SnowparkSessionException", "OperationalError"}

VARIABLES
    CONNECTION_NAME,   \* auth.py:4, the profile name imported from utils.config
    rpc,               \* position inside get_snowflake_session
    local_session,     \* the local variable `session` of get_snowflake_session
    exc,               \* exception in flight in / out of get_snowflake_session
    retval,            \* value returned by the last completed invocation
    trace,             \* events of the current execution, in order
    totalBuilds,       \* builder calls over all executions
    noActiveRuns,      \* executions whose resolver lookup raised "no active session"
    runs,              \* page executions started so far
    page,              \* the page script being executed
    pc,                \* index of the next statement of Script(page)
    status,            \* "idle", "running", "done", "crashed", "rerun"
    session,           \* the page script's global `session`
    is_in_snowflake,   \* the page script's global `is_in_snowflake`
    lastOp,            \* source line of the last data operation issued in this execution, 0 if none
    sections,          \* lesson sections (st.header / st.title) rendered so far in this execution
    ss,                \* st.session_state: a function from the keys present to their values
    view,              \* the page open in the browser
    event,             \* the last user interaction
    shown,             \* what each script execution of the last interaction displayed
    clicks,            \* plus / minus clicks on the working counter since its last reset
    jobs,              \* parallel-queries demo: the async jobs, in submission order
    ppc,               \* parallel-queries demo: position in the button handler
    results            \* parallel-queries demo: rows of the results table

resolverVars == <<CONNECTION_NAME, rpc, local_session, exc, retval, trace, totalBuilds, noActiveRuns>>
pageVars     == <<runs, page, pc, status, session, is_in_snowflake, lastOp, sections>>
stateVars    == <<ss, view, event, shown, clicks>>
asyncVars    == <<jobs, ppc, results>>
demoVars     == <<ss, view, event, shown, clicks, jobs, ppc, results>>
vars         == <<CONNECTION_NAME, rpc, local_session, exc, retval, trace, totalBuilds,
                  noActiveRuns, runs, page, pc, status, session, is_in_snowflake, lastOp,
                  sections, ss, view, event, shown, clicks, jobs, ppc, results>>

----------------------------------------------------------------------------
\* Events recorded in the trace.
Ev(ev, res, val, arg) == [ev |-> ev, res |-> res, val |-> val, arg |-> arg]

Idx(t, e)      == {i \in DOMAIN t : t[i].ev = e}
Count(t, e)    == Cardinality(Idx(t, e))
LastCallIdx(t) == IF Idx(t, "call") = {} THEN 0
                  ELSE CHOOSE i \in Idx(t, "call") : \A j \in Idx(t, "call") : j <= i
\* The events of the invocation in progress (or of the last one).
CurCall(t)     == IF LastCallIdx(t) = 0 THEN << >> ELSE SubSeq(t, LastCallIdx(t), Len(t))

----------------------------------------------------------------------------
\* Python's exception hierarchy, as far as the resolver's clauses test it.
IsInstance(e, cls) == \/ cls = e
                      \/ cls = "Exception"

\* The except clauses of the try statement, in source order, with the line
\* each one jumps to.
ExceptClauses == << [cls |-> "SnowparkSessionException", target |-> "line10"],
                    [cls |-> "Exception",                 target |-> "line12"] >>

\* An exception raised in the try body goes to the first matching clause.
Handler(e) ==
    IF \E i \in DOMAIN ExceptClauses : IsInstance(e, ExceptClauses[i].cls)
    THEN ExceptClauses[CHOOSE i \in DOMAIN ExceptClauses :
                         /\ IsInstance(e, ExceptClauses[i].cls)
                         /\ \A j \in DOMAIN ExceptClauses :
                                IsInstance(e, ExceptClauses[j].cls) => i <= j].target
    ELSE "raised"

\* Where control goes when the try body completes without raising.
AfterTryBuilds == "line10"
AfterTry == "line13"

\* An exception raised inside an except clause is not offered to the sibling
\* clauses of the same try statement: it leaves the function.
RaisedInHandlerCaught(e) == Handler(e)
RaisedInHandler(e) == "raised"

----------------------------------------------------------------------------
\* get_snowflake_session(), auth.py:6-13

\* Entering the function: a fresh frame, nothing kept from earlier calls.
EnterMemoised ==
    /\ local_session' = Unbound
    /\ exc' = "none"
    /\ IF retval # Unbound
       THEN /\ rpc' = "returned"
            /\ retval' = retval
            /\ trace' = trace \o << Ev("call", "-", "-", "-"), Ev("return", "ok", retval, "-") >>
       ELSE /\ rpc' = "line8"
            /\ retval' = Unbound
            /\ trace' = Append(trace, Ev("call", "-", "-", "-"))
    /\ UNCHANGED <<CONNECTION_NAME, totalBuilds, noActiveRuns>>
Enter ==
    /\ rpc' = "line8"
    /\ local_session' = Unbound
    /\ exc' = "none"
    /\ retval' = Unbound
    /\ trace' = Append(trace, Ev("call", "-", "-", "-"))
    /\ UNCHANGED <<CONNECTION_NAME, totalBuilds, noActiveRuns>>

\* line 8: session = get_active_session()
TryGetActiveSession ==
    /\ rpc = "line8"
    /\ \/ \E s \in HostSessions :
            /\ local_session' = s
            /\ exc' = "none"
            /\ rpc' = AfterTry
            /\ trace' = Append(trace, Ev("lookup", "ok", s, "-"))
            /\ UNCHANGED noActiveRuns
       \/ \E e \in LookupErrors :
            /\ local_session' = local_session
            /\ exc' = e
            /\ rpc' = Handler(e)
            /\ trace' = Append(trace, Ev("lookup", e, "-", "-"))
               \o (IF Handler(e) = "raised" THEN << Ev("raise", e, "-", "-") >> ELSE << >>)
            /\ noActiveRuns' = IF /\ e = "SnowparkSessionException"
                                  /\ ~ \E i \in Idx(trace, "lookup") :
                                         trace[i].res = "SnowparkSessionException"
                               THEN noActiveRuns + 1 ELSE noActiveRuns
    /\ UNCHANGED <<CONNECTION_NAME, retval, totalBuilds>>
    /\ UNCHANGED pageVars
    /\ UNCHANGED demoVars

\* line 10: session = Session.builder.config("connection_name", CONNECTION_NAME).create()
ExceptSnowparkSessionExceptionLiteral ==
    /\ rpc = "line10"
    /\ totalBuilds' = totalBuilds + 1
    /\ \/ \E s \in BuiltSessions :
            /\ local_session' = s
            /\ exc' = "none"
            /\ rpc' = "line13"
            /\ trace' = Append(trace, Ev("build", "ok", s, "LOCAL_DEV"))
       \/ \E e \in BuilderErrors :
            /\ local_session' = local_session
            /\ exc' = e
            /\ rpc' = RaisedInHandler(e)
            /\ trace' = Append(trace, Ev("build", e, "-", "LOCAL_DEV"))
               \o (IF RaisedInHandler(e) = "raised" THEN << Ev("raise", e, "-", "-") >> ELSE << >>)
    /\ UNCHANGED <<CONNECTION_NAME, retval, noActiveRuns>>
    /\ UNCHANGED pageVars
    /\ UNCHANGED demoVars
ExceptSnowparkSessionExceptionReuse ==
    /\ rpc = "line10"
    /\ IF totalBuilds > 0
       THEN /\ totalBuilds' = totalBuilds
            /\ \E s \in BuiltSessions :
                 /\ local_session' = s
                 /\ exc' = "none"
                 /\ rpc' = "line13"
                 /\ trace' = trace
       ELSE /\ totalBuilds' = totalBuilds + 1
            /\ \E s \in BuiltSessions :
                 /\ local_session' = s
                 /\ exc' = "none"
                 /\ rpc' = "line13"
                 /\ trace' = Append(trace, Ev("build", "ok", s, CONNECTION_NAME))
    /\ UNCHANGED <<CONNECTION_NAME, retval, noActiveRuns>>
    /\ UNCHANGED pageVars
    /\ UNCHANGED demoVars
ExceptSnowparkSessionException ==
    /\ rpc = "line10"
    /\ totalBuilds' = totalBuilds + 1
    /\ \/ \E s \in BuiltSessions :
            /\ local_session' = s
            /\ exc' = "none"
            /\ rpc' = "line13"
            /\ trace' = Append(trace, Ev("build", "ok", s, CONNECTION_NAME))
       \/ \E e \in BuilderErrors :
            /\ local_session' = local_session
            /\ exc' = e
            /\ rpc' = RaisedInHandler(e)
            /\ trace' = Append(trace, Ev("build", e, "-", CONNECTION_NAME))
               \o (IF RaisedInHandler(e) = "raised" THEN << Ev("raise", e, "-", "-") >> ELSE << >>)
    /\ UNCHANGED <<CONNECTION_NAME, retval, noActiveRuns>>
    /\ UNCHANGED pageVars
    /\ UNCHANGED demoVars

\* line 12: print(f"Error getting snowflake session: {e}")
ExceptExceptionRetry ==
    /\ rpc = "line12"
    /\ trace' = Append(trace, Ev("print", exc, "-", "-"))
    /\ exc' = "none"
    /\ rpc' = "line8"
    /\ UNCHANGED <<CONNECTION_NAME, local_session, retval, totalBuilds, noActiveRuns>>
    /\ UNCHANGED pageVars
    /\ UNCHANGED demoVars
ExceptExceptionReraise ==
    /\ rpc = "line12"
    /\ trace' = trace \o << Ev("print", exc, "-", "-"), Ev("raise", exc, "-", "-") >>
    /\ exc' = exc
    /\ rpc' = "raised"
    /\ UNCHANGED <<CONNECTION_NAME, local_session, retval, totalBuilds, noActiveRuns>>
    /\ UNCHANGED pageVars
    /\ UNCHANGED demoVars
ExceptException ==
    /\ rpc = "line12"
    /\ trace' = Append(trace, Ev("print", exc, "-", "-"))
    /\ exc' = "none"
    /\ rpc' = "line13"
    /\ UNCHANGED <<CONNECTION_NAME, local_session, retval, totalBuilds, noActiveRuns>>
    /\ UNCHANGED pageVars
    /\ UNCHANGED demoVars

\* line 13: return session
\* Reading a local that was never assigned raises UnboundLocalError.
ReturnSessionNone ==
    /\ rpc = "line13"
    /\ rpc' = "returned"
    /\ exc' = "none"
    /\ retval' = IF local_session = Unbound THEN "None" ELSE local_session
    /\ trace' = Append(trace, Ev("return", "ok",
                      IF local_session = Unbound THEN "None" ELSE local_session, "-"))
    /\ UNCHANGED <<CONNECTION_NAME, local_session, totalBuilds, noActiveRuns>>
    /\ UNCHANGED pageVars
    /\ UNCHANGED demoVars
ReturnSession ==
    /\ rpc = "line13"
    /\ IF local_session = Unbound
       THEN /\ rpc' = "raised"
            /\ exc' = "UnboundLocalError"
            /\ retval' = retval
            /\ trace' = Append(trace, Ev("raise", "UnboundLocalError", "-", "-"))
       ELSE /\ rpc' = "returned"
            /\ exc' = "none"
            /\ retval' = local_session
            /\ trace' = Append(trace, Ev("return", "ok", local_session, "-"))
    /\ UNCHANGED <<CONNECTION_NAME, local_session, totalBuilds, noActiveRuns>>
    /\ UNCHANGED pageVars
    /\ UNCHANGED demoVars

ResolverStep ==
    \/ TryGetActiveSession
    \/ ExceptSnowparkSessionException
    \/ ExceptException
    \/ ReturnSession

----------------------------------------------------------------------------
\* A caller that invokes the resolver directly, several times in one
\* execution (the unit-test caller of get_snowflake_session).
CallerInvoke ==
    /\ status = "idle"
    /\ rpc \in {"idle", "returned", "raised"}
    /\ Count(trace, "call") < MaxCalls
    /\ Enter
    /\ UNCHANGED pageVars
    /\ UNCHANGED demoVars

----------------------------------------------------------------------------
\* The page scripts.  Each statement is [kind, line]:
\*   "resolve"  session = get_snowflake_session()
\*   "probe"    try: get_active_session(); is_in_snowflake = True / except: pass
\*   "op"       a data operation through `session` (session.sql, session.table,
\*              session.create_dataframe, session.write_pandas, session.file.put, ...),
\*              at the line where the script executes it
\*   "rerun"    st.rerun() under a button / submit condition
\*   "section"  the page's first lesson section (its first st.header; on the
\*              main page, the introduction)
S(kind, line) == [kind |-> kind, line |-> line]

Pages == {"app", "Basics", "Session_State", "Caching", "Layouts_and_Design",
          "Snowflake_Integration", "Advanced_Patterns", "AI_with_Cortex"}

\* app.py
Script_app ==
    << S("resolve", 23), S("probe", 33), S("section", 47) >>
\* pages/1_Basics.py: no use of the session
Script_Basics ==
    << S("section", 18) >>
\* pages/2_Session_State.py: no use of the session
Script_Session_State ==
    << S("section", 17), S("rerun", 172), S("rerun", 321), S("rerun", 329), S("rerun", 334),
       S("rerun", 345), S("rerun", 461), S("rerun", 472), S("rerun", 483) >>
\* pages/3_Caching.py: the operations are the calls of the cached loaders
\* (cached_login_history, cached_warehouse_usage, pipeline_load_queries)
Script_Caching ==
    << S("section", 19), S("resolve", 113), S("op", 135), S("op", 209), S("rerun", 388), S("op", 459) >>
\* pages/4_Layouts_and_Design.py
Script_Layouts_SectionFirst ==
    << S("section", 15), S("resolve", 22), S("op", 74) >>
Script_Layouts_and_Design ==
    << S("resolve", 22), S("section", 29), S("op", 74), S("op", 124), S("op", 137), S("op", 148),
       S("op", 216), S("op", 254), S("op", 309), S("op", 333), S("op", 352),
       S("op", 392), S("op", 404), S("op", 433), S("op", 458), S("op", 486) >>
\* pages/5_Snowflake_Integration.py
Script_Snowflake_Integration ==
    << S("resolve", 16), S("probe", 22), S("section", 38), S("op", 124), S("op", 125), S("op", 126),
       S("op", 127), S("op", 176), S("op", 269), S("op", 276), S("op", 297),
       S("op", 418), S("op", 528), S("op", 577), S("op", 631) >>
\* pages/6_Advanced_Patterns.py: the form and pagination demos come first
Script_Advanced_Patterns ==
    << S("section", 25), S("rerun", 162), S("rerun", 170), S("rerun", 175), S("rerun", 186),
       S("rerun", 390), S("rerun", 395), S("rerun", 403), S("rerun", 408),
       S("resolve", 492), S("op", 529), S("op", 618), S("op", 627), S("op", 636),
       S("op", 735), S("op", 744), S("op", 756), S("op", 757), S("op", 771),
       S("op", 800), S("op", 866) >>
\* pages/7_AI_with_Cortex.py
Script_AI_with_Cortex ==
    << S("resolve", 21), S("probe", 27), S("section", 43), S("op", 72), S("op", 87), S("op", 159),
       S("op", 168), S("op", 177), S("op", 203), S("op", 225), S("op", 287),
       S("op", 352), S("op", 430), S("op", 497), S("op", 577), S("op", 586),
       S("op", 612), S("op", 635) >>

\* Variants of the Caching page: one that resolves at the top and again in the
\* demo column, one that loads the login history before resolving.
ScriptResolveTwice(p) ==
    IF p = "Caching"
    THEN << S("resolve", 12) >> \o Script_Caching
    ELSE << >>
ScriptOpFirst(p) ==
    IF p = "Caching"
    THEN << S("op", 135), S("resolve", 113), S("op", 209), S("rerun", 388), S("op", 459) >>
    ELSE << >>
Script(p) ==
    CASE p = "app"                   -> Script_app
      [] p = "Basics"                -> Script_Basics
      [] p = "Session_State"         -> Script_Session_State
      [] p = "Caching"               -> Script_Caching
      [] p = "Layouts_and_Design"    -> Script_Layouts_and_Design
      [] p = "Snowflake_Integration" -> Script_Snowflake_Integration
      [] p = "Advanced_Patterns"     -> Script_Advanced_Patterns
      [] p = "AI_with_Cortex"        -> Script_AI_with_Cortex

AtStmt(kind) ==
    /\ status = "running"
    /\ rpc = "idle"
    /\ pc \in DOMAIN Script(page)
    /\ Script(page)[pc].kind = kind

\* The framework runs the script top to bottom with fresh globals; after
\* st.rerun() it runs the same page again.
StartExecution ==
    /\ status \in {"idle", "done", "crashed", "rerun"}
    /\ rpc = "idle"
    /\ runs < MaxRuns
    /\ runs' = runs + 1
    /\ page' \in (IF status = "rerun" THEN {page} ELSE Pages)
    /\ pc' = 1
    /\ status' = "running"
    /\ session' = Unbound
    /\ is_in_snowflake' = FALSE
    /\ lastOp' = 0
    /\ sections' = 0
    /\ trace' = << >>
    /\ UNCHANGED <<CONNECTION_NAME, rpc, local_session, exc, retval, totalBuilds, noActiveRuns>>
    /\ UNCHANGED demoVars

\* session = get_snowflake_session(): the call ...
PageCallResolver ==
    /\ AtStmt("resolve")
    /\ Enter
    /\ UNCHANGED pageVars
    /\ UNCHANGED demoVars

\* ... and its completion: the assignment when it returns, the end of the
\* execution when it raises (no page wraps the call in a try statement).
PageResolverReturns ==
    /\ status = "running"
    /\ rpc = "returned"
    /\ session' = retval
    /\ pc' = pc + 1
    /\ rpc' = "idle"
    /\ UNCHANGED <<CONNECTION_NAME, local_session, exc, retval, trace, totalBuilds, noActiveRuns>>
    /\ UNCHANGED <<runs, page, status, is_in_snowflake, lastOp, sections>>
    /\ UNCHANGED demoVars

PageResolverRaises ==
    /\ status = "running"
    /\ rpc = "raised"
    /\ status' = "crashed"
    /\ rpc' = "idle"
    /\ UNCHANGED <<CONNECTION_NAME, local_session, exc, retval, trace, totalBuilds, noActiveRuns>>
    /\ UNCHANGED <<runs, page, pc, session, is_in_snowflake, lastOp, sections>>
    /\ UNCHANGED demoVars

\* try: get_active_session(); is_in_snowflake = True / except: pass
PageProbe ==
    /\ AtStmt("probe")
    /\ \/ \E s \in HostSessions :
            /\ is_in_snowflake' = TRUE
            /\ trace' = Append(trace, Ev("probe", "ok", s, "-"))
       \/ \E e \in LookupErrors :
            /\ is_in_snowflake' = FALSE
            /\ trace' = Append(trace, Ev("probe", e, "-", "-"))
    /\ pc' = pc + 1
    /\ UNCHANGED <<CONNECTION_NAME, rpc, local_session, exc, retval, totalBuilds, noActiveRuns>>
    /\ UNCHANGED <<runs, page, status, session, lastOp, sections>>
    /\ UNCHANGED demoVars

\* A data operation through `session`.  Every one of them sits under a widget
\* condition or inside a try block after other statements, so an execution
\* may pass it without issuing it.
PageDataOp ==
    /\ AtStmt("op")
    /\ \/ lastOp' = Script(page)[pc].line
       \/ lastOp' = lastOp
    /\ pc' = pc + 1
    /\ UNCHANGED resolverVars
    /\ UNCHANGED <<runs, page, status, session, is_in_snowflake, sections>>
    /\ UNCHANGED demoVars

\* st.header(...): the lesson content starts.
PageSection ==
    /\ AtStmt("section")
    /\ sections' = sections + 1
    /\ pc' = pc + 1
    /\ UNCHANGED resolverVars
    /\ UNCHANGED <<runs, page, status, session, is_in_snowflake, lastOp>>
    /\ UNCHANGED demoVars

\* if st.button(...): ...; st.rerun()
PageRerun ==
    /\ AtStmt("rerun")
    /\ \/ /\ status' = "rerun"
          /\ pc' = pc
       \/ /\ status' = status
          /\ pc' = pc + 1
    /\ UNCHANGED resolverVars
    /\ UNCHANGED <<runs, page, session, is_in_snowflake, lastOp, sections>>
    /\ UNCHANGED demoVars

EndExecution ==
    /\ status = "running"
    /\ rpc = "idle"
    /\ pc = Len(Script(page)) + 1
    /\ status' = "done"
    /\ UNCHANGED resolverVars
    /\ UNCHANGED <<runs, page, pc, session, is_in_snowflake, lastOp, sections>>
    /\ UNCHANGED demoVars

----------------------------------------------------------------------------
\* st.session_state is a dictionary: a function whose domain is the set of
\* keys present.
NoKeys         == [k \in {} |-> 0]
Has(s, k)      == k \in DOMAIN s
Put(s, k, v)   == [x \in DOMAIN s \cup {k} |-> IF x = k THEN v ELSE s[x]]
Get(s, k, d)   == IF Has(s, k) THEN s[k] ELSE d
Drop(s, K)     == [x \in DOMAIN s \ K |-> s[x]]
SetDefault(s, k, v) == IF Has(s, k) THEN s ELSE Put(s, k, v)

\* A user interaction: the widget acted on and the value given to it.
Event(key, val) == [key |-> key, val |-> val]
NoEvent         == Event("none", "-")

Init ==
    /\ CONNECTION_NAME \in Profiles
    /\ rpc = "idle"
    /\ local_session = Unbound
    /\ exc = "none"
    /\ retval = Unbound
    /\ trace = << >>
    /\ totalBuilds = 0
    /\ noActiveRuns = 0
    /\ runs = 0
    /\ page = "app"
    /\ pc = 0
    /\ status = "idle"
    /\ session = Unbound
    /\ is_in_snowflake = FALSE
    /\ lastOp = 0
    /\ sections = 0
    /\ ss = NoKeys
    /\ view = "app"
    /\ event = NoEvent
    /\ shown = << >>
    /\ clicks = [plus |-> 0, minus |-> 0]
    /\ jobs = << >>
    /\ ppc = [pc |-> "idle", i |-> 0, completed |-> << >>, announced |-> FALSE]
    /\ results = << >>

----------------------------------------------------------------------------
\* The framework's script runs, as far as the demos depend on them.
\*
\* One user interaction is one action: the widget's callback (if any), then
\* the page script from the top.  A script run is a record
\*   s        st.session_state
\*   ev       the interaction that triggered the run
\*   out      what the run has displayed
\*   stop     the run has ended before the end of the script
\*   rerun    ... by st.rerun(), so the framework runs the script again
\*   rendered the keys of the widgets the run has created
\* Each section of a page is an operator from run to run.  A run that reaches
\* the end of the script discards the values of the keyed widgets it did not
\* create; a run that stopped early keeps them.  A button reads True only in
\* the run its click triggered.
StartRun(s, ev, blank) ==
    [s |-> s, ev |-> ev, out |-> blank, stop |-> FALSE, rerun |-> FALSE, rendered |-> {}]
Clicked(r, key) == r.ev.key = key
Widget(r, key, default) ==
    [r EXCEPT !.s = SetDefault(r.s, key, default), !.rendered = r.rendered \cup {key}]
Rerun(r)  == [r EXCEPT !.stop = TRUE, !.rerun = TRUE]
Raise(r)  == [r EXCEPT !.stop = TRUE]
Finish(r, widgets) ==
    IF r.stop THEN r.s ELSE Drop(r.s, widgets \ r.rendered)

----------------------------------------------------------------------------
\* pages/2_Session_State.py

P2_Widgets == {"demo_age", "demo_slider", "wiz_name", "wiz_email"}
P2_Blank   == [broken |-> -1, working |-> -1, original |-> -1, doubled |-> -1,
               step |-> -1, name |-> "-", email |-> "-"]

\* lines 58-84: the broken and the working counter
P2_CountersNoReset(r) ==
    LET broken == IF Clicked(r, "broken_inc") THEN 0 + 1 ELSE 0
        s1 == SetDefault(r.s, "working_counter", 0)
        s2 == IF Clicked(r, "work_inc")
              THEN Put(s1, "working_counter", s1["working_counter"] + 1)
              ELSE s1
        s3 == IF Clicked(r, "work_dec")
              THEN Put(s2, "working_counter", s2["working_counter"] - 1)
              ELSE s2
    IN [r EXCEPT !.s = s3,
                 !.out = [r.out EXCEPT !.broken = broken,
                                       !.working = s3["working_counter"]]]
P2_Counters(r) ==
    LET broken == IF Clicked(r, "broken_inc") THEN 0 + 1 ELSE 0
        s1 == SetDefault(r.s, "working_counter", 0)
        s2 == IF Clicked(r, "work_inc")
              THEN Put(s1, "working_counter", s1["working_counter"] + 1)
              ELSE s1
        s3 == IF Clicked(r, "work_dec")
              THEN Put(s2, "working_counter", s2["working_counter"] - 1)
              ELSE s2
        s4 == IF Clicked(r, "work_reset")
              THEN Put(s3, "working_counter", 0)
              ELSE s3
    IN [r EXCEPT !.s = s4,
                 !.out = [r.out EXCEPT !.broken = broken,
                                       !.working = s4["working_counter"]]]

\* lines 164-172: the demo_age slider and the "Set to 30" button.  Assigning
\* st.session_state.demo_age after the slider with that key has been created
\* raises StreamlitAPIException, which ends the run at line 171.
P2_WidgetKeys(r) ==
    IF r.stop THEN r
    ELSE LET r1 == Widget(r, "demo_age", 0)
         IN IF Clicked(r1, "set_age") THEN Raise(r1) ELSE r1

\* lines 208-220: the slider with the on_change callback
on_demo_slider_change(s) ==
    Put(s, "doubled", s["demo_slider"] * 2)
P2_Callbacks(r) ==
    IF r.stop THEN r
    ELSE LET r1 == [r EXCEPT !.s = SetDefault(r.s, "doubled", 0)]
             r2 == Widget(r1, "demo_slider", 0)
         IN [r2 EXCEPT !.out = [r2.out EXCEPT !.original = Get(r2.s, "demo_slider", 0),
                                              !.doubled = r2.s["doubled"]]]

\* An empty str is false (lines 318, 331: `st.button(...) and wizard_name`).
TruthyAlways(x) == TRUE
Truthy(x) == x # ""

\* lines 282-351: the three-step wizard
P2_WizardNextUnguarded(r) ==
    IF r.stop THEN r
    ELSE
    LET s1   == SetDefault(SetDefault(r.s, "wizard_step", 1), "wizard_data", NoKeys)
        step == s1["wizard_step"]
        r1   == [r EXCEPT !.s = s1, !.out = [r.out EXCEPT !.step = step]]
    IN  IF step = 1 THEN
            LET r2 == Widget(r1, "wiz_name", "")
                wizard_name == r2.s["wiz_name"]
            IN  IF Clicked(r2, "wiz_next1")
                THEN Rerun([r2 EXCEPT !.s = Put(Put(r2.s, "wizard_data",
                                    Put(r2.s["wizard_data"], "name", wizard_name)),
                                    "wizard_step", 2)])
                ELSE r2
        ELSE IF step = 2 THEN
            LET r2 == Widget(r1, "wiz_email", "")
                wizard_email == r2.s["wiz_email"]
            IN  IF Clicked(r2, "wiz_back2")
                THEN Rerun([r2 EXCEPT !.s = Put(r2.s, "wizard_step", 1)])
                ELSE IF Clicked(r2, "wiz_next2")
                THEN Rerun([r2 EXCEPT !.s = Put(Put(r2.s, "wizard_data",
                                    Put(r2.s["wizard_data"], "email", wizard_email)),
                                    "wizard_step", 3)])
                ELSE r2
        ELSE
            LET data == r1.s["wizard_data"]
                r2 == [r1 EXCEPT !.out = [r1.out EXCEPT
                                    !.name = Get(data, "name", "N/A"),
                                    !.email = Get(data, "email", "N/A")]]
            IN  IF Clicked(r2, "wiz_back3")
                THEN Rerun([r2 EXCEPT !.s = Put(r2.s, "wizard_step", 2)])
                ELSE IF Clicked(r2, "wiz_submit")
                THEN [r2 EXCEPT !.s = Put(Put(r2.s, "wizard_step", 1), "wizard_data", NoKeys)]
                ELSE r2
P2_Wizard(r) ==
    IF r.stop THEN r
    ELSE
    LET s1   == SetDefault(SetDefault(r.s, "wizard_step", 1), "wizard_data", NoKeys)
        step == s1["wizard_step"]
        r1   == [r EXCEPT !.s = s1, !.out = [r.out EXCEPT !.step = step]]
    IN  IF step = 1 THEN
            LET r2 == Widget(r1, "wiz_name", "")
                wizard_name == r2.s["wiz_name"]
            IN  IF Clicked(r2, "wiz_next1") /\ Truthy(wizard_name)
                THEN Rerun([r2 EXCEPT !.s = Put(Put(r2.s, "wizard_data",
                                    Put(r2.s["wizard_data"], "name", wizard_name)),
                                    "wizard_step", 2)])
                ELSE r2
        ELSE IF step = 2 THEN
            LET r2 == Widget(r1, "wiz_email", "")
                wizard_email == r2.s["wiz_email"]
            IN  IF Clicked(r2, "wiz_back2")
                THEN Rerun([r2 EXCEPT !.s = Put(r2.s, "wizard_step", 1)])
                ELSE IF Clicked(r2, "wiz_next2") /\ Truthy(wizard_email)
                THEN Rerun([r2 EXCEPT !.s = Put(Put(r2.s, "wizard_data",
                                    Put(r2.s["wizard_data"], "email", wizard_email)),
                                    "wizard_step", 3)])
                ELSE r2
        ELSE
            LET data == r1.s["wizard_data"]
                r2 == [r1 EXCEPT !.out = [r1.out EXCEPT
                                    !.name = Get(data, "name", "N/A"),
                                    !.email = Get(data, "email", "N/A")]]
            IN  IF Clicked(r2, "wiz_back3")
                THEN Rerun([r2 EXCEPT !.s = Put(r2.s, "wizard_step", 2)])
                ELSE IF Clicked(r2, "wiz_submit")
                THEN [r2 EXCEPT !.s = Put(Put(r2.s, "wizard_step", 1), "wizard_data", NoKeys)]
                ELSE r2

\* lines 440-483: the todo buttons end their run with st.rerun(); they touch
\* none of the keys above
P2_Todos(r) ==
    IF r.stop THEN r
    ELSE IF Clicked(r, "todo") THEN Rerun(r) ELSE r

\* The whole script of the page, top to bottom.
P2_Run(s, ev) ==
    P2_Todos(P2_Wizard(P2_Callbacks(P2_WidgetKeys(P2_Counters(StartRun(s, ev, P2_Blank))))))

----------------------------------------------------------------------------
\* pages/6_Advanced_Patterns.py

P6_Widgets == {"demo_category", "demo_selected_item", "step1_name", "step2_email",
               "val_email", "val_age", "val_password"}
P6_Blank   == [category |-> "-", items |-> << >>, item |-> "-",
               step |-> -1, name |-> "-", email |-> "-",
               messages |-> << >>, pagination_page |-> -1, rows |-> {}]

\* lines 69-103: dependent dropdowns
demo_categories ==
    [c \in {"Electronics", "Clothing", "Food"} |->
        CASE c = "Electronics" -> <<"Laptop", "Phone", "Tablet">>
          [] c = "Clothing"    -> <<"Shirt", "Pants", "Shoes">>
          [] c = "Food"        -> <<"Pizza", "Burger", "Salad">>]
on_demo_category_change(s) ==
    Put(Put(s, "demo_selected_item", "None"),
        "demo_items", demo_categories[s["demo_category"]])
P6_Dropdowns(r) ==
    LET s1 == SetDefault(SetDefault(r.s, "demo_category", "Electronics"),
                         "demo_selected_item", "None")
        r1 == [r EXCEPT !.s = s1, !.rendered = r.rendered \cup {"demo_category"}]
        category == r1.s["demo_category"]
        s2 == SetDefault(r1.s, "demo_items", demo_categories[category])
        r2 == [r1 EXCEPT !.s = s2, !.rendered = r1.rendered \cup {"demo_selected_item"}]
    IN [r2 EXCEPT !.out = [r2.out EXCEPT !.category = category,
                                         !.items = r2.s["demo_items"],
                                         !.item = r2.s["demo_selected_item"]]]

\* lines 149-193: the multi-step form
P6_Form(r) ==
    IF r.stop THEN r
    ELSE
    LET s1   == IF Has(r.s, "form_step") THEN r.s
                ELSE Put(Put(r.s, "form_step", 1), "form_data", NoKeys)
        step == s1["form_step"]
        r1   == [r EXCEPT !.s = s1, !.out = [r.out EXCEPT !.step = step]]
    IN  IF step = 1 THEN
            LET r2 == Widget(r1, "step1_name", "")
                name == r2.s["step1_name"]
            IN  IF Clicked(r2, "form_next1") /\ Truthy(name)
                THEN Rerun([r2 EXCEPT !.s = Put(Put(r2.s, "form_data",
                                    Put(r2.s["form_data"], "name", name)),
                                    "form_step", 2)])
                ELSE r2
        ELSE IF step = 2 THEN
            LET r2 == Widget(r1, "step2_email", "")
                email == r2.s["step2_email"]
            IN  IF Clicked(r2, "form_back2")
                THEN Rerun([r2 EXCEPT !.s = Put(r2.s, "form_step", 1)])
                ELSE IF Clicked(r2, "form_next2") /\ Truthy(email)
                THEN Rerun([r2 EXCEPT !.s = Put(Put(r2.s, "form_data",
                                    Put(r2.s["form_data"], "email", email)),
                                    "form_step", 3)])
                ELSE r2
        ELSE
            LET data == r1.s["form_data"]
                r2 == [r1 EXCEPT !.out = [r1.out EXCEPT
                                    !.name = Get(data, "name", "N/A"),
                                    !.email = Get(data, "email", "N/A")]]
            IN  IF Clicked(r2, "form_back3")
                THEN Rerun([r2 EXCEPT !.s = Put(r2.s, "form_step", 2)])
                ELSE IF Clicked(r2, "form_submit")
                THEN [r2 EXCEPT !.s = Put(Put(r2.s, "form_step", 1), "form_data", NoKeys)]
                ELSE r2

\* lines 297-321: the validation form.  Text values are sequences of
\* characters.
Contains(str, ch) == \E i \in DOMAIN str : str[i] = ch
InvalidEmail    == "Invalid email address"
InvalidAge      == "Must be 18 or older"
InvalidPassword == "Password must be at least 8 characters"
AllValid        == "All inputs valid!"
ErrorsAgeInclusive(val_email, val_age, val_password) ==
    (IF val_email = << >> \/ ~Contains(val_email, "@") THEN <<InvalidEmail>> ELSE << >>)
    \o (IF val_age <= 18 THEN <<InvalidAge>> ELSE << >>)
    \o (IF Len(val_password) < 8 THEN <<InvalidPassword>> ELSE << >>)
Errors(val_email, val_age, val_password) ==
    (IF val_email = << >> \/ ~Contains(val_email, "@") THEN <<InvalidEmail>> ELSE << >>)
    \o (IF val_age < 18 THEN <<InvalidAge>> ELSE << >>)
    \o (IF Len(val_password) < 8 THEN <<InvalidPassword>> ELSE << >>)
P6_Validation(r) ==
    IF r.stop THEN r
    ELSE
    LET r1 == Widget(Widget(Widget(r, "val_email", << >>), "val_age", 25), "val_password", << >>)
        errors == Errors(r1.s["val_email"], r1.s["val_age"], r1.s["val_password"])
    IN  IF Clicked(r1, "validation_form")
        THEN [r1 EXCEPT !.out = [r1.out EXCEPT !.messages =
                                    IF errors # << >> THEN errors ELSE <<AllValid>>]]
        ELSE r1

\* lines 370-413: pagination.  pagination_data is kept as its number of rows;
\* row i is the row at position i (ID i + 1).
NumRows       == 500
rows_per_page == 25
Min(a, b) == IF a < b THEN a ELSE b
Max(a, b) == IF a > b THEN a ELSE b
Slice(n, start, end) == Min(start, n) .. Min(end, n) - 1
NextPageUnclamped(total_pages, p) == p + 1
NextPage(total_pages, p) == Min(total_pages - 1, p + 1)
PrevPage(p) == Max(0, p - 1)
P6_Pagination(r) ==
    IF r.stop THEN r
    ELSE
    LET s1 == SetDefault(SetDefault(r.s, "pagination_data", NumRows), "pagination_page", 0)
        total_pages == s1["pagination_data"] \div rows_per_page
        p  == s1["pagination_page"]
        r1 == [r EXCEPT !.s = s1]
        Goto(q) == Rerun([r1 EXCEPT !.s = Put(s1, "pagination_page", q)])
    IN  IF Clicked(r1, "page_first") THEN Goto(0)
        ELSE IF Clicked(r1, "page_prev") THEN Goto(PrevPage(p))
        ELSE IF Clicked(r1, "page_next") THEN Goto(NextPage(total_pages, p))
        ELSE IF Clicked(r1, "page_last") THEN Goto(total_pages - 1)
        ELSE LET start == p * rows_per_page
                 end   == start + rows_per_page
             IN [r1 EXCEPT !.out = [r1.out EXCEPT
                        !.pagination_page = p,
                        !.rows = Slice(s1["pagination_data"], start, end)]]

\* line 492: session = get_snowflake_session(); when the resolver raises the
\* run ends there
P6_Session(r, ok) ==
    IF r.stop \/ ok THEN r ELSE Raise(r)

\* The script of the page, top to bottom, as far as these demos go.
P6_Run(s, ev, ok) ==
    P6_Session(P6_Pagination(P6_Validation(P6_Form(P6_Dropdowns(
        StartRun(s, ev, P6_Blank))))), ok)

AllWidgets == P2_Widgets \cup P6_Widgets
\* One interaction: the run it triggers and, if that run called st.rerun(),
\* the run that follows.
P2_Interact(s, ev) ==
    LET r1 == P2_Run(s, ev)
    IN  IF r1.rerun
        THEN LET r2 == P2_Run(r1.s, NoEvent)
             IN [s |-> Finish(r2, AllWidgets), shown |-> <<r1.out, r2.out>>]
        ELSE [s |-> Finish(r1, AllWidgets), shown |-> <<r1.out>>]
P6_Interact(s, ev, ok) ==
    LET r1 == P6_Run(s, ev, ok)
    IN  IF r1.rerun
        THEN LET r2 == P6_Run(r1.s, NoEvent, ok)
             IN [s |-> Finish(r2, AllWidgets), shown |-> <<r1.out, r2.out>>]
        ELSE [s |-> Finish(r1, AllWidgets), shown |-> <<r1.out>>]

SessionStatePage == "Session_State"
AdvancedPage     == "Advanced_Patterns"
OtherPage        == "Basics"

\* The user opens a page from the sidebar: its script runs from the top.
\* pages/1_Basics.py creates none of the demos' widgets.
OpenPage(p) ==
    /\ view # p
    /\ view' = p
    /\ event' = Event("open", p)
    /\ IF p = SessionStatePage
       THEN LET i == P2_Interact(ss, NoEvent)
            IN ss' = i.s /\ shown' = i.shown
       ELSE IF p = AdvancedPage
       THEN \E ok \in BOOLEAN :
              LET i == P6_Interact(ss, NoEvent, ok)
              IN ss' = i.s /\ shown' = i.shown
       ELSE ss' = Drop(ss, AllWidgets) /\ shown' = << >>
    /\ UNCHANGED <<clicks, resolverVars, pageVars, asyncVars>>

\* A click on a button of the Session State page.
P2_Click(key) ==
    /\ view = SessionStatePage
    /\ event' = Event(key, "click")
    /\ LET i == P2_Interact(ss, Event(key, "click"))
       IN ss' = i.s /\ shown' = i.shown
    /\ UNCHANGED <<view, resolverVars, pageVars, asyncVars>>

CounterButtons == {"work_inc", "work_dec", "work_reset"}
OtherButtons   == {"broken_inc", "set_age", "todo"}

ClickPlus ==
    /\ clicks.plus < MaxClicks
    /\ P2_Click("work_inc")
    /\ clicks' = [clicks EXCEPT !.plus = @ + 1]
ClickMinus ==
    /\ clicks.minus < MaxClicks
    /\ P2_Click("work_dec")
    /\ clicks' = [clicks EXCEPT !.minus = @ + 1]
ClickReset ==
    /\ P2_Click("work_reset")
    /\ clicks' = [plus |-> 0, minus |-> 0]
ClickOther ==
    /\ \E key \in OtherButtons : P2_Click(key)
    /\ UNCHANGED clicks
OpenSessionState ==
    \E p \in {SessionStatePage, OtherPage} : OpenPage(p)

NextCounters ==
    \/ OpenSessionState
    \/ ClickPlus
    \/ ClickMinus
    \/ ClickReset
    \/ ClickOther
SpecCounters == Init /\ [][NextCounters]_vars

\* The user drags the callback demo's slider (line 214): the new value is
\* stored, on_change runs, then the script.
SliderValues == 0 .. 10
MoveSlider ==
    /\ view = SessionStatePage
    /\ Has(ss, "demo_slider")
    /\ \E v \in SliderValues \ {ss["demo_slider"]} :
         /\ event' = Event("demo_slider", "change")
         /\ LET i == P2_Interact(on_demo_slider_change(Put(ss, "demo_slider", v)),
                              Event("demo_slider", "change"))
            IN ss' = i.s /\ shown' = i.shown
    /\ UNCHANGED <<view, clicks, resolverVars, pageVars, asyncVars>>

NextSlider ==
    \/ OpenSessionState
    \/ MoveSlider
    \/ ClickOther
SpecSlider == Init /\ [][NextSlider]_vars

\* An interaction with the Advanced Patterns page: the widget's value is
\* stored, its callback (if any) has run, then the script runs.
P6_Interaction(s, ev) ==
    /\ view = AdvancedPage
    /\ event' = ev
    /\ \E ok \in BOOLEAN :
         LET i == P6_Interact(s, ev, ok)
         IN ss' = i.s /\ shown' = i.shown
    /\ UNCHANGED <<view, clicks, resolverVars, pageVars, asyncVars>>
OpenAdvanced ==
    \E p \in {AdvancedPage, OtherPage} : OpenPage(p)

\* lines 86-101: the two selectboxes
Range(seq) == {seq[i] : i \in DOMAIN seq}
SelectCategory ==
    /\ Has(ss, "demo_category")
    /\ \E c \in DOMAIN demo_categories \ {ss["demo_category"]} :
         P6_Interaction(on_demo_category_change(Put(ss, "demo_category", c)),
                        Event("demo_category", "change"))
SelectItem ==
    /\ Has(ss, "demo_selected_item")
    /\ Has(ss, "demo_items")
    /\ \E v \in Range(ss["demo_items"]) \ {ss["demo_selected_item"]} :
         P6_Interaction(Put(ss, "demo_selected_item", v),
                        Event("demo_selected_item", "change"))

\* lines 387-408: the four pagination buttons
PaginationButtons == {"page_first", "page_prev", "page_next", "page_last"}
ClickPagination ==
    \E key \in PaginationButtons : P6_Interaction(ss, Event(key, "click"))

NextAdvanced ==
    \/ OpenAdvanced
    \/ SelectCategory
    \/ SelectItem
    \/ ClickPagination
SpecAdvanced == Init /\ [][NextAdvanced]_vars

\* The two three-step flows: wizard (Session State page, lines 316-351) and
\* form (Advanced Patterns page, lines 157-193).  Each button and text input
\* is drawn in one step only.
Texts == {"", "x"}
WizardButtons == [k \in {"wiz_next1", "wiz_back2", "wiz_next2", "wiz_back3", "wiz_submit"} |->
                    CASE k = "wiz_next1" -> 1
                      [] k \in {"wiz_back2", "wiz_next2"} -> 2
                      [] OTHER -> 3]
FormButtons   == [k \in {"form_next1", "form_back2", "form_next2", "form_back3", "form_submit"} |->
                    CASE k = "form_next1" -> 1
                      [] k \in {"form_back2", "form_next2"} -> 2
                      [] OTHER -> 3]
ClickWizard ==
    /\ \E key \in DOMAIN WizardButtons :
         /\ Get(ss, "wizard_step", 1) = WizardButtons[key]
         /\ P2_Click(key)
    /\ UNCHANGED clicks
TypeWizard ==
    /\ view = SessionStatePage
    /\ \E key \in {"wiz_name", "wiz_email"} :
         /\ Has(ss, key)
         /\ \E v \in Texts \ {ss[key]} :
              /\ event' = Event(key, "change")
              /\ LET i == P2_Interact(Put(ss, key, v), Event(key, "change"))
                 IN ss' = i.s /\ shown' = i.shown
    /\ UNCHANGED <<view, clicks, resolverVars, pageVars, asyncVars>>
ClickForm ==
    \E key \in DOMAIN FormButtons :
         /\ Get(ss, "form_step", 1) = FormButtons[key]
         /\ P6_Interaction(ss, Event(key, "click"))
TypeForm ==
    \E key \in {"step1_name", "step2_email"} :
         /\ Has(ss, key)
         /\ \E v \in Texts \ {ss[key]} :
              P6_Interaction(Put(ss, key, v), Event(key, "change"))
OpenFlows ==
    \E p \in {SessionStatePage, AdvancedPage, OtherPage} : OpenPage(p)

NextFlows ==
    \/ OpenFlows
    \/ ClickWizard
    \/ TypeWizard
    \/ ClickForm
    \/ TypeForm
SpecFlows == Init /\ [][NextFlows]_vars

\* line 302: the validation form is submitted with the values typed into it.
Chars(n, ch) == [i \in 1 .. n |-> ch]
Emails    == {<< >>, <<"a">>, <<"@">>, <<"a", "b">>, <<"a", "@", "b">>}
Ages      == {0, 17, 18, 19, 25, 150}
Passwords == {Chars(0, "x"), Chars(7, "x"), Chars(8, "x"), Chars(9, "x")}
SubmitValidation ==
    \E val_email \in Emails, val_age \in Ages, val_password \in Passwords :
        P6_Interaction(Put(Put(Put(ss, "val_email", val_email), "val_age", val_age),
                           "val_password", val_password),
                       Event("validation_form", "submit"))

NextValidation ==
    \/ OpenAdvanced
    \/ SubmitValidation
SpecValidation == Init /\ [][NextValidation]_vars

----------------------------------------------------------------------------
\* pages/6_Advanced_Patterns.py lines 611-682: the "Start Parallel Queries"
\* handler, one action per call it makes.  A job is
\*   name     its entry of query_names
\*   state    what the warehouse has done with the query
\*   polled   is_done() has been called on it
\*   reported is_done() has returned True for it
\*   fetched  result() has been called on it
\* ppc is the handler's position: pc, the loop index i, the completed list and
\* whether "All queries completed!" has been shown.
QueryNames == <<"Last 1 Day", "Last 7 Days", "Last 30 Days">>
Job(name)  == [name |-> name, state |-> "running", polled |-> FALSE,
               reported |-> FALSE, fetched |-> FALSE]
At(label)  == ppc.pc = label
AnyCompleted(completed) == \E k \in DOMAIN completed : completed[k]
all(completed) == \A k \in DOMAIN completed : completed[k]

\* line 611: the button is clicked; lines 614-615
StartParallelQueries ==
    /\ At("idle")
    /\ jobs' = << >>
    /\ results' = << >>
    /\ ppc' = [pc |-> "submit", i |-> 0, completed |-> << >>, announced |-> FALSE]
    /\ UNCHANGED <<stateVars, resolverVars, pageVars>>

\* lines 618-643: session.sql(...).to_pandas(block=False), three times, then
\* lines 645-652
SubmitQuery ==
    /\ At("submit")
    /\ \/ /\ jobs' = Append(jobs, Job(QueryNames[Len(jobs) + 1]))
          /\ ppc' = IF Len(jobs') = Len(QueryNames)
                    THEN [ppc EXCEPT !.pc = "while",
                                     !.completed = [k \in DOMAIN jobs' |-> FALSE]]
                    ELSE ppc
       \/ /\ ppc' = [ppc EXCEPT !.pc = "except"]
          /\ UNCHANGED jobs
    /\ UNCHANGED <<results, stateVars, resolverVars, pageVars>>

\* line 653: while not all(completed)
WhileNotAllCompleted ==
    /\ At("while")
    /\ ppc' = IF all(ppc.completed)
              THEN [ppc EXCEPT !.pc = "collect", !.i = 1, !.announced = TRUE]
              ELSE [ppc EXCEPT !.pc = "for", !.i = 1]
    /\ UNCHANGED <<jobs, results, stateVars, resolverVars, pageVars>>

\* lines 654-660: one iteration of the for loop; line 661 after the last
PollJob ==
    /\ At("for")
    /\ LET i    == ppc.i
           step == IF i = Len(jobs) THEN [ppc EXCEPT !.pc = "while"]
                                    ELSE [ppc EXCEPT !.i = i + 1]
       IN IF ppc.completed[i]
          THEN ppc' = step /\ UNCHANGED jobs
          ELSE \/ /\ jobs' = [jobs EXCEPT ![i].polled = TRUE,
                                          ![i].reported = jobs[i].state # "running"]
                  /\ ppc' = IF jobs[i].state # "running"
                            THEN [step EXCEPT !.completed[i] = TRUE]
                            ELSE step
               \/ /\ jobs' = [jobs EXCEPT ![i].polled = TRUE]
                  /\ ppc' = [ppc EXCEPT !.pc = "except"]
    /\ UNCHANGED <<results, stateVars, resolverVars, pageVars>>

\* lines 664-671: job.result() of each job in turn; a failed query raises
CollectResult ==
    /\ At("collect")
    /\ LET i == ppc.i
       IN /\ jobs' = [jobs EXCEPT ![i].fetched = TRUE]
          /\ IF jobs[i].state = "success"
             THEN /\ results' = Append(results, [Period |-> jobs[i].name, job |-> i])
                  /\ ppc' = IF i = Len(jobs) THEN [ppc EXCEPT !.pc = "table"]
                                             ELSE [ppc EXCEPT !.i = i + 1]
             ELSE /\ ppc' = [ppc EXCEPT !.pc = "except"]
                  /\ UNCHANGED results
    /\ UNCHANGED <<stateVars, resolverVars, pageVars>>

\* lines 672-679: the table and the chart; lines 681-682: except Exception.
\* Either way the handler is over and the button can be clicked again.
EndParallelQueries ==
    /\ At("table") \/ At("except")
    /\ ppc' = [ppc EXCEPT !.pc = "idle"]
    /\ UNCHANGED <<jobs, results, stateVars, resolverVars, pageVars>>

\* The warehouse finishes a query, successfully or not, at any time.
QueryFinishes ==
    /\ \E k \in DOMAIN jobs, outcome \in {"success", "failed"} :
         /\ jobs[k].state = "running"
         /\ jobs' = [jobs EXCEPT ![k].state = outcome]
    /\ UNCHANGED <<ppc, results, stateVars, resolverVars, pageVars>>

NextParallel ==
    \/ StartParallelQueries
    \/ SubmitQuery
    \/ WhileNotAllCompleted
    \/ PollJob
    \/ CollectResult
    \/ EndParallelQueries
    \/ QueryFinishes
SpecParallel == Init /\ [][NextParallel]_vars

\* The resolver under a direct caller.
Next ==
    \/ CallerInvoke
    \/ TryGetActiveSession
    \/ ExceptSnowparkSessionException
    \/ ExceptException
    \/ ReturnSession

Spec == Init /\ [][Next]_vars

\* The same, with the resolver's statements executed once enabled: the
\* interpreter runs a called function to completion.
SpecFair == Spec /\ WF_vars(ResolverStep)

\* The page scripts under the framework's rerun loop.
NextPages ==
    \/ StartExecution
    \/ PageCallResolver
    \/ TryGetActiveSession
    \/ ExceptSnowparkSessionException
    \/ ExceptException
    \/ ReturnSession
    \/ PageResolverReturns
    \/ PageResolverRaises
    \/ PageProbe
    \/ PageDataOp
    \/ PageSection
    \/ PageRerun
    \/ EndExecution

SpecPages == Init /\ [][NextPages]_vars

----------------------------------------------------------------------------
\* Properties of the resolver and of the pages.

Cur        == CurCall(trace)
Terminated == rpc \in {"returned", "raised"}
NoActive   == "SnowparkSessionException"
Sessions   == HostSessions \cup BuiltSessions

\* C1: whenever the lookup of an invocation returned a session, the invocation
\* makes no builder call, goes straight to the return statement and returns
\* that very object.
C1_ActiveSessionReturned ==
    \A i \in Idx(Cur, "lookup") :
        Cur[i].res = "ok" =>
            /\ Count(Cur, "build") = 0
            /\ rpc \in {"line13", "returned"}
            /\ local_session = Cur[i].val
            /\ rpc = "returned" => retval = Cur[i].val
C1_Witness ==
    /\ rpc = "returned"
    /\ retval \in HostSessions
    /\ \E i \in Idx(Cur, "lookup") : Cur[i].res = "ok"

\* C2: whenever the lookup of an invocation raised "no active session", the
\* invocation calls the builder exactly once, with connection_name equal to
\* CONNECTION_NAME, and what the builder returned is what the invocation
\* returns.
C2_FallbackBuildsOnce ==
    \A i \in Idx(Cur, "lookup") :
        Cur[i].res = NoActive =>
            /\ rpc \in {"line10", "line13", "returned", "raised"}
            /\ Count(Cur, "build") = (IF rpc = "line10" THEN 0 ELSE 1)
            /\ \A j \in Idx(Cur, "build") :
                 /\ j > i
                 /\ Cur[j].arg = CONNECTION_NAME
                 /\ Cur[j].res = "ok" =>
                      /\ rpc \in {"line13", "returned"}
                      /\ local_session = Cur[j].val
                      /\ rpc = "returned" => retval = Cur[j].val
C2_Witness ==
    /\ CONNECTION_NAME = "LOCAL_DEV"
    /\ rpc = "returned"
    /\ retval \in BuiltSessions
    /\ \E i \in Idx(Cur, "lookup") : Cur[i].res = NoActive
    /\ \E j \in Idx(Cur, "build") : Cur[j].arg = "LOCAL_DEV" /\ Cur[j].val = retval

\* C3: when the builder call of the fallback path raises, that exception
\* leaves get_snowflake_session and ends the calling page's execution: no
\* except clause takes it, nothing is printed, neither the lookup nor the
\* builder is repeated, nothing is returned and the page's session stays
\* unassigned.
C3_BuilderErrorPropagates ==
    \A j \in Idx(Cur, "build") :
        Cur[j].res # "ok" =>
            /\ exc = Cur[j].res
            /\ \/ rpc = "raised"
               \/ rpc = "idle" /\ status = "crashed"
            /\ Count(Cur, "print") = 0
            /\ Count(Cur, "lookup") = 1
            /\ Count(Cur, "build") = 1
            /\ Count(Cur, "return") = 0
            /\ session = Unbound
            /\ lastOp = 0
C3_Witness ==
    /\ status = "crashed"
    /\ exc \in BuilderErrors
    /\ \E j \in Idx(Cur, "build") : Cur[j].res = exc

\* C4: when the lookup raises an exception other than "no active session",
\* the invocation prints one diagnostic, calls the builder not at all, makes
\* no second lookup, and the exception that reaches the caller is never the
\* one the lookup raised.
C4_OtherErrorSwallowed ==
    \A i \in Idx(Cur, "lookup") :
        Cur[i].res \notin {"ok", NoActive} =>
            /\ Count(Cur, "lookup") = 1
            /\ Count(Cur, "build") = 0
            /\ Count(Cur, "print") = (IF rpc = "line12" THEN 0 ELSE 1)
            /\ \A k \in Idx(Cur, "raise") : Cur[k].res # Cur[i].res
            /\ Terminated => exc # Cur[i].res
C4_Witness ==
    /\ Terminated
    /\ Count(Cur, "print") = 1
    /\ \E i \in Idx(Cur, "lookup") : Cur[i].res = "RuntimeError"

\* C5 (as stated): when the lookup raises an exception other than "no active
\* session", the invocation returns to its caller without raising.
C5_ReturnsWithoutRaising ==
    \A i \in Idx(Cur, "lookup") :
        Cur[i].res \notin {"ok", NoActive} =>
            /\ rpc # "raised"
            /\ status # "crashed"

\* C5 (amended): when the lookup raises an exception other than "no active
\* session", the invocation does not return: after the diagnostic its return
\* statement raises UnboundLocalError, which ends the page's execution at
\* the resolver call, with the page's session unassigned and before any
\* data operation.
C5_UnboundLocalErrorAtReturn ==
    \A i \in Idx(Cur, "lookup") :
        Cur[i].res \notin {"ok", NoActive} =>
            /\ \/ rpc \in {"line12", "line13"}
               \/ rpc = "raised" /\ exc = "UnboundLocalError"
               \/ rpc = "idle" /\ status = "crashed" /\ exc = "UnboundLocalError"
            /\ Count(Cur, "return") = 0
            /\ session = Unbound
            /\ lastOp = 0
C5_Witness ==
    /\ status = "crashed"
    /\ exc = "UnboundLocalError"
    /\ session = Unbound
    /\ \E i \in Idx(Cur, "lookup") : Cur[i].res = "RuntimeError"

\* C6: in an execution in which every lookup returned a host session, k
\* completed invocations have made exactly k lookups and no builder call,
\* and each returned the session its own lookup gave (k = 2 in the witness).
C6_NoStateBetweenCalls ==
    ( /\ rpc \in {"idle", "returned", "raised"}
      /\ \A i \in Idx(trace, "lookup") : trace[i].res = "ok" )
    =>
    /\ Count(trace, "lookup") = Count(trace, "call")
    /\ Count(trace, "return") = Count(trace, "call")
    /\ Count(trace, "build") = 0
    /\ \A i \in Idx(trace, "return") :
         /\ i > 1
         /\ trace[i - 1].ev = "lookup"
         /\ trace[i].val = trace[i - 1].val
         /\ trace[i].val \in HostSessions
C6_Witness ==
    /\ rpc = "returned"
    /\ Count(trace, "call") = 2
    /\ Count(trace, "lookup") = 2
    /\ Count(trace, "build") = 0
    /\ \A i \in Idx(trace, "lookup") : trace[i].res = "ok"

\* C7: within one page execution get_snowflake_session is invoked at most
\* once, and once the page's session is assigned it keeps that value until
\* the execution ends (Unresolved -> Resolved, never back, never reassigned).
C7_ResolvedOncePerExecution ==
    [][ /\ Count(trace', "call") <= 1
        /\ (runs' = runs /\ session # Unbound) => session' = session ]_vars
C7_Witness ==
    /\ status = "done"
    /\ session \in Sessions
    /\ Count(trace, "call") = 1
    /\ runs >= 2

\* C8: a page reaches or issues a data operation only when, in that same
\* execution, get_snowflake_session has returned and its result is the
\* page's session.
C8_ResolveBeforeDataOp ==
    (AtStmt("op") \/ lastOp # 0) =>
        /\ session \in Sessions
        /\ Count(trace, "return") = 1
        /\ \A i \in Idx(trace, "return") : trace[i].val = session
C8_Witness ==
    /\ lastOp # 0
    /\ status = "running"
    /\ session \in Sessions

\* C9: every invocation terminates, by returning or raising, after exactly
\* one lookup and at most one builder call, and a builder call comes only
\* after the lookup of the same invocation has raised "no active session".
C9_TerminatesWithoutRetry ==
    /\ [](/\ Count(Cur, "lookup") <= 1
          /\ Count(Cur, "build") <= 1
          /\ \A j \in Idx(Cur, "build") :
               \E i \in Idx(Cur, "lookup") : i < j /\ Cur[i].res = NoActive
          /\ Terminated => Count(Cur, "lookup") = 1)
    /\ [](rpc = "line8" => <>Terminated)
C9_Witness ==
    /\ Terminated
    /\ Count(Cur, "lookup") = 1
    /\ Count(Cur, "build") = 1
    /\ Count(trace, "call") = 2

\* C10: after N page executions in each of which the resolver's lookup raised
\* "no active session", the builder has been called N times, once in each
\* execution, whatever earlier executions built.
C10_NoReuseAcrossExecutions ==
    ( /\ status \in {"done", "crashed", "rerun"}
      /\ noActiveRuns = runs )
    =>
    /\ totalBuilds = runs
    /\ Count(trace, "build") = 1
C10_Witness ==
    /\ status = "done"
    /\ runs = 3
    /\ noActiveRuns = 3
    /\ totalBuilds = 3

StartupResolvers == {"app", "Layouts_and_Design", "Snowflake_Integration", "AI_with_Cortex"}
NonResolvers     == {"Basics", "Session_State"}
----------------------------------------------------------------------------
\* Session State page: the counters

Working == Get(ss, "working_counter", 0)

\* C12: the 'Broken Counter' metric displays 0 in every execution of the
\* script, the one triggered by 'Increment Broken Counter' included.
C12_BrokenCounterShowsZero ==
    \A i \in DOMAIN shown : shown[i].broken = 0

\* C13: working_counter equals the plus clicks minus the minus clicks since
\* the last reset (or the first load), the metric shows that value, and a
\* rerun triggered by any other widget leaves it unchanged.
C13_WorkingCounterPersists ==
    /\ [](/\ Working = clicks.plus - clicks.minus
          /\ \A i \in DOMAIN shown : shown[i].working = Working)
    /\ [][event'.key \notin CounterButtons => Working' = Working]_vars
C13_Witness ==
    /\ event.key = "broken_inc"
    /\ clicks = [plus |-> 2, minus |-> 1]
    /\ Working = 1
    /\ shown = << [P2_Blank EXCEPT !.broken = 1, !.working = 1, !.original = 0,
                                   !.doubled = 0, !.step = 1] >>


----------------------------------------------------------------------------
\* Session State page: the callback demo

\* C14: at every render of the callback demo the displayed 'Doubled' value
\* is exactly 2 times the displayed demo_slider value (0 and 0 before the
\* slider is ever moved).
C14_DoubledIsTwiceSlider ==
    \A i \in DOMAIN shown :
        shown[i].original # -1 => shown[i].doubled = 2 * shown[i].original


----------------------------------------------------------------------------
\* Advanced Patterns page: dependent dropdowns

\* C15: at every render the item list is demo_categories[category] of the
\* category shown as selected, the item shown as selected is None or a member
\* of that list, and a category change shows the item reset to None.
C15_ItemsFollowCategory ==
    \A i \in DOMAIN shown :
        /\ shown[i].items = demo_categories[shown[i].category]
        /\ shown[i].item \in {"None"} \cup Range(demo_categories[shown[i].category])
        /\ event.key = "demo_category" => shown[i].item = "None"


----------------------------------------------------------------------------
\* Advanced Patterns page: pagination

PaginationPage == Get(ss, "pagination_page", 0)
LastPage       == NumRows \div rows_per_page - 1
PageRows(p)    == Slice(NumRows, p * rows_per_page, p * rows_per_page + rows_per_page)

\* C16: pagination_page stays within 0 .. total_pages - 1 (0 .. 19); prev on
\* page 0 and next on the last page leave it unchanged; page p displays
\* exactly rows 25*p .. 25*p + 24; every one of the 500 rows is on exactly
\* one page.
C16_PaginationInRange ==
    /\ [](/\ LastPage = 19
          /\ PaginationPage \in 0 .. LastPage
          /\ \A i \in DOMAIN shown :
               shown[i].pagination_page # -1 =>
                 /\ shown[i].pagination_page = PaginationPage
                 /\ shown[i].rows = 25 * PaginationPage .. 25 * PaginationPage + 24
          /\ \A row \in 0 .. NumRows - 1 :
               Cardinality({q \in 0 .. LastPage : row \in PageRows(q)}) = 1)
    /\ [][/\ (event'.key = "page_prev" /\ PaginationPage = 0) => PaginationPage' = 0
          /\ (event'.key = "page_next" /\ PaginationPage = LastPage)
                => PaginationPage' = LastPage]_vars
C16_Witness ==
    /\ event.key = "page_next"
    /\ PaginationPage = 19
    /\ Len(shown) = 2
    /\ shown[2].rows = 475 .. 499


----------------------------------------------------------------------------
\* The three-step flows

Flows == {"wizard", "form"}
StepOf(s, f) == Get(s, IF f = "wizard" THEN "wizard_step" ELSE "form_step", 1)
DataOf(s, f) == Get(s, IF f = "wizard" THEN "wizard_data" ELSE "form_data", NoKeys)
InputOf(s, f) ==
    Get(s, CASE f = "wizard" /\ StepOf(s, f) = 1 -> "wiz_name"
             [] f = "wizard" /\ StepOf(s, f) # 1 -> "wiz_email"
             [] f = "form" /\ StepOf(s, f) = 1 -> "step1_name"
             [] f = "form" /\ StepOf(s, f) # 1 -> "step2_email", "")
NextKeys(f) == IF f = "wizard" THEN {"wiz_next1", "wiz_next2"} ELSE {"form_next1", "form_next2"}
BackKeys(f) == IF f = "wizard" THEN {"wiz_back2", "wiz_back3"} ELSE {"form_back2", "form_back3"}
SubmitKey(f) == IF f = "wizard" THEN "wiz_submit" ELSE "form_submit"

\* C17: in both flows the step is 1, 2 or 3; it changes only by +1 on Next
\* with a non-empty input, by -1 on Back, or from 3 to 1 on Submit, which
\* empties the collected data; Next with an empty input changes neither the
\* step nor the data.
C17_StepMoves ==
    /\ [](\A f \in Flows : StepOf(ss, f) \in {1, 2, 3})
    /\ [][\A f \in Flows :
            /\ StepOf(ss', f) # StepOf(ss, f) =>
                 \/ /\ StepOf(ss', f) = StepOf(ss, f) + 1
                    /\ event'.key \in NextKeys(f)
                    /\ InputOf(ss, f) # ""
                 \/ /\ StepOf(ss', f) = StepOf(ss, f) - 1
                    /\ event'.key \in BackKeys(f)
                 \/ /\ StepOf(ss, f) = 3 /\ StepOf(ss', f) = 1
                    /\ event'.key = SubmitKey(f)
                    /\ DataOf(ss', f) = NoKeys
            /\ (event'.key \in NextKeys(f) /\ InputOf(ss, f) = "") =>
                 /\ StepOf(ss', f) = StepOf(ss, f)
                 /\ DataOf(ss', f) = DataOf(ss, f)]_vars
C17_Witness ==
    /\ event.key = "form_submit"
    /\ StepOf(ss, "form") = 1 /\ DataOf(ss, "form") = NoKeys
    /\ StepOf(ss, "wizard") = 2 /\ InputOf(ss, "wizard") = ""
    /\ shown = << [P6_Blank EXCEPT !.category = "Electronics",
                        !.items = demo_categories["Electronics"], !.item = "None",
                        !.step = 3, !.name = "x", !.email = "x",
                        !.pagination_page = 0, !.rows = 0 .. 24] >>

\* C18: whenever the step is 3 the collected data holds a non-empty name and
\* a non-empty email, whenever it is 2 a non-empty name, and the review step
\* never displays the 'N/A' placeholders.
C18_ReviewComplete ==
    /\ \A f \in Flows :
         /\ StepOf(ss, f) \in {2, 3} => Get(DataOf(ss, f), "name", "") # ""
         /\ StepOf(ss, f) = 3 => Get(DataOf(ss, f), "email", "") # ""
    /\ \A i \in DOMAIN shown : shown[i].name # "N/A" /\ shown[i].email # "N/A"
C18_Witness ==
    /\ event.key = "wiz_back3"
    /\ StepOf(ss, "wizard") = 2
    /\ DataOf(ss, "wizard") = [name |-> "x", email |-> "x"]
    /\ Len(shown) = 2 /\ shown[1].step = 3 /\ shown[1].name = "x" /\ shown[2].step = 2


----------------------------------------------------------------------------
\* Advanced Patterns page: input validation

Submitted == event.key = "validation_form"
EmailOk    == \E i \in 1 .. Len(ss["val_email"]) : ss["val_email"][i] = "@"
AgeOk      == ss["val_age"] >= 18
PasswordOk == Len(ss["val_password"]) >= 8
Violated(m) ==
    \/ m = InvalidEmail /\ ~EmailOk
    \/ m = InvalidAge /\ ~AgeOk
    \/ m = InvalidPassword /\ ~PasswordOk

\* C19: on submit the success message is shown iff the email contains '@',
\* the age is at least 18 and the password has at least 8 characters;
\* otherwise one error per violated rule is shown, in the order email, age,
\* password; success and errors are never shown together.
C19_ValidationVerdict ==
    Submitted =>
        /\ Len(shown) = 1
        /\ shown[1].messages =
             IF EmailOk /\ AgeOk /\ PasswordOk
             THEN <<AllValid>>
             ELSE SelectSeq(<<InvalidEmail, InvalidAge, InvalidPassword>>, Violated)
        /\ shown[1].messages # << >>
C19_Witness ==
    /\ Submitted
    /\ ss["val_email"] = <<"a", "b">> /\ ss["val_age"] = 18 /\ ss["val_password"] = Chars(7, "x")
    /\ shown[1].messages = <<InvalidEmail, InvalidPassword>>


----------------------------------------------------------------------------
\* Advanced Patterns page: parallel queries

\* C20: all three jobs are submitted before any of them is polled; "All
\* queries completed!" is shown and result() is called only after each of
\* the three jobs has reported is_done(); the results table has one row per
\* job, in submission order.
C20_ParallelQueries ==
    /\ (\E k \in DOMAIN jobs : jobs[k].polled) => Len(jobs) = 3
    /\ (ppc.announced \/ \E k \in DOMAIN jobs : jobs[k].fetched) =>
          /\ Len(jobs) = 3
          /\ \A k \in 1 .. 3 : jobs[k].reported
    /\ At("table") =>
          /\ Len(results) = 3
          /\ \A k \in 1 .. 3 : results[k].job = k
          /\ <<results[1].Period, results[2].Period, results[3].Period>>
               = <<"Last 1 Day", "Last 7 Days", "Last 30 Days">>
C20_Witness ==
    /\ At("table")
    /\ ppc.announced
    /\ \A k \in 1 .. 3 : jobs[k].fetched
    /\ Len(results) = 3

====
